---- MODULE Spec2Model ----
(***************************************************************************)
(* The posts controller of reddish (src/server/controllers/posts.js) as a  *)
(* state machine.  The state is the document store (Post, Subreddit and    *)
(* User collections), the media host, and one record per client holding    *)
(* the position and the local variables of the request that client has in  *)
(* flight.  Every `await` of a handler is a point where the requests of    *)
(* other clients may run, so every awaited database or upload call is one  *)
(* action; the synchronous code between two awaits belongs to the action   *)
(* of the await that precedes it.                                          *)
(***************************************************************************)
EXTENDS Integers, Sequences, FiniteSets, TLC

\* Bounds of the model.
MaxOps == 2      \* requests started in one behaviour
MaxPage == 2     \* largest ?page= of GET /new
MaxLimit == 2    \* largest ?limit= of GET /new

\* Two clients, each with at most one request in flight.
Clients == {"c1", "c2"}

\* Identifiers.  "ghost" is a token whose user record is absent, "s2" the
\* identifier of an absent subreddit.  Post identifier 0 is never allocated
\* by `new Post`, 1 is the post the store starts with, and the identifiers
\* from 2 on are allocated in order.
UserIds == {"alice", "bob", "ghost"}
SubIds == {"s1", "s2"}
PostIds == 0..(MaxOps + 1)

PostTypes == {"Text", "Link", "Image"}
RequestTypes == PostTypes \cup {"Video"}

VARIABLES
    posts,      \* Post collection: PostIds -> post document
    subs,       \* Subreddit collection: SubIds -> subreddit document
    users,      \* User collection: UserIds -> user document
    cloud,      \* number of images stored at the media host
    nextId,     \* next identifier `new Post` allocates
    clock,      \* logical time (Date.now)
    ops,        \* requests started so far
    req,        \* Clients -> the request in flight (position and locals)
    writes,     \* Clients -> the collections the request has written so far
    saved       \* the identifiers of the posts stored at some time

vars == <<posts, subs, users, cloud, nextId, clock, ops, req, writes, saved>>
store == <<posts, subs, users>>

-----------------------------------------------------------------------------
\* Documents.

NoImage == [imageLink |-> 0, imageId |-> 0]

NoPost ==
    [exists |-> FALSE, id |-> 0, postType |-> "", textSubmission |-> "",
     linkSubmission |-> "", imageSubmission |-> NoImage, author |-> "",
     subreddit |-> "", createdAt |-> 0, updatedAt |-> 0]

NoList == [exists |-> FALSE, id |-> "", posts |-> <<>>, postKarma |-> 0, v |-> 0]

EmptyList(i) == [exists |-> TRUE, id |-> i, posts |-> <<>>, postKarma |-> 0, v |-> 0]

\* The members of an array.
Range(s) == {s[i] : i \in 1..Len(s)}

\* Array.prototype.filter((p) => p.toString() !== id)
RECURSIVE FilterOut(_, _)
FilterOut(s, id) ==
    IF s = <<>> THEN <<>>
    ELSE IF Head(s) = id THEN FilterOut(Tail(s), id)
    ELSE <<Head(s)>> \o FilterOut(Tail(s), id)

-----------------------------------------------------------------------------
\* utils/postTypeValidator: the field of the declared type, or a failure.
\* The payloads are strings; "" is a missing or blank one.

NoBody == [textSubmission |-> "", linkSubmission |-> "", imageSubmission |-> ""]

\* The request bodies tried: a text alone, and all three submissions.
Bodies ==
    {[NoBody EXCEPT !.textSubmission = "x"],
     [textSubmission |-> "x", linkSubmission |-> "x", imageSubmission |-> "x"]}

postTypeValidator(postType, textSubmission, linkSubmission, imageSubmission) ==
    LET none == [error |-> "", postType |-> postType, textSubmission |-> "",
                 linkSubmission |-> "", imageSubmission |-> ""]
        given == CASE postType = "Text" -> textSubmission
                   [] postType = "Link" -> linkSubmission
                   [] postType = "Image" -> imageSubmission
                   [] OTHER -> ""
    IN  IF postType \notin PostTypes THEN [none EXCEPT !.error = "InvalidPostType"]
        ELSE IF given = "" THEN [none EXCEPT !.error = "EmptySubmission"]
        ELSE CASE postType = "Text" -> [none EXCEPT !.textSubmission = given]
               [] postType = "Link" -> [none EXCEPT !.linkSubmission = given]
               [] OTHER -> [none EXCEPT !.imageSubmission = given]

NoFields == postTypeValidator("", "", "", "")

\* utils/paginateResults: the window of a page.
NoPage == [page |-> 0, limit |-> 0]

paginateResults(page, limit, docCount) ==
    LET startIndex == (page - 1) * limit
        endIndex == page * limit
    IN  [startIndex |-> startIndex, endIndex |-> endIndex,
         previous |-> IF startIndex > 0
                      THEN [page |-> page - 1, limit |-> limit] ELSE NoPage,
         next |-> IF endIndex < docCount
                  THEN [page |-> page + 1, limit |-> limit] ELSE NoPage]

NoWindow == [startIndex |-> 0, endIndex |-> 0, previous |-> NoPage, next |-> NoPage]

-----------------------------------------------------------------------------
\* The queries of the handlers.

Stored == {p \in PostIds : posts[p].exists}

\* Post.countDocuments()
countDocuments == Cardinality(Stored)

\* Post.find({}).sort({createdAt: -1}): the identifiers, newest first.
RECURSIVE SortNewest(_)
SortNewest(S) ==
    IF S = {} THEN <<>>
    ELSE LET p == CHOOSE q \in S :
                     \A o \in S : posts[o].createdAt <= posts[q].createdAt
         IN  <<p>> \o SortNewest(S \ {p})

\* .limit(limit).skip(startIndex) of a sorted result.
SkipLimit(s, skip, limit) ==
    IF skip >= Len(s) THEN <<>>
    ELSE SubSeq(s, skip + 1, IF skip + limit < Len(s) THEN skip + limit ELSE Len(s))

-----------------------------------------------------------------------------
\* Requests.

Idle ==
    [kind |-> "", pc |-> "idle", id |-> 0, user |-> "", subreddit |-> "",
     postType |-> "", body |-> NoBody, absent |-> {}, modified |-> {}, post |-> NoPost, author |-> NoList, target |-> NoList,
     fields |-> NoFields, page |-> 0, limit |-> 0, postsCount |-> 0,
     paginated |-> NoWindow, results |-> <<>>, status |-> 0, threw |-> ""]

Free(c) == req[c].pc \in {"idle", "done"} /\ ops < MaxOps

At(c, kind, pc) == req[c].kind = kind /\ req[c].pc = pc

Set(c, r) == req' = [req EXCEPT ![c] = r]

\* The handler returns: its locals are gone.  What stays of the request is
\* its kind, the lookups that found nothing, and for GET /new the query, the
\* window and the page answered.
Return(r) ==
    [Idle EXCEPT !.kind = r.kind, !.pc = "done", !.absent = r.absent,
                 !.page = r.page, !.limit = r.limit, !.postsCount = r.postsCount,
                 !.paginated = r.paginated, !.results = r.results,
                 !.status = r.status, !.threw = r.threw]

\* res.status(s).send/json/end: the handler answers and returns.
Respond(r, s) == Return([r EXCEPT !.status = s])

\* An exception leaves the handler: no answer is sent by it.
Throw(r, e) == Return([r EXCEPT !.threw = e])

\* The outcome of a findById: the document, noted when there is none.
Found(r, name, doc) ==
    [r EXCEPT !.absent = IF doc.exists THEN @ ELSE @ \cup {name}]

\* The store after one earlier POST /: alice's link post in subreddit s1.
Seed ==
    [NoPost EXCEPT !.exists = TRUE, !.id = 1, !.postType = "Link",
                   !.linkSubmission = "x", !.author = "alice",
                   !.subreddit = "s1", !.createdAt = 1, !.updatedAt = 1]

SeedSubs ==
    [s \in SubIds |->
       IF s = "s1" THEN [EmptyList(s) EXCEPT !.posts = <<1>>, !.v = 1] ELSE NoList]

SeedUsers ==
    [u \in UserIds |->
       IF u = "ghost" THEN NoList
       ELSE IF u = "alice"
       THEN [EmptyList(u) EXCEPT !.posts = <<1>>, !.postKarma = 1, !.v = 1]
       ELSE EmptyList(u)]

Init ==
    /\ posts = [p \in PostIds |-> IF p = 1 THEN Seed ELSE NoPost]
    /\ subs = SeedSubs
    /\ users = SeedUsers
    /\ cloud = 0
    /\ nextId = 2
    /\ clock = 2
    /\ ops = 0
    /\ req = [c \in Clients |-> Idle]
    /\ writes = [c \in Clients |-> {}]
    /\ saved = {1}

-----------------------------------------------------------------------------
\* The history kept beside the program: what the step of a request wrote
\* (the collections and the media host that differ after it, added to what
\* the request had written before), and the posts stored at some time.
Touched ==
    (IF posts' # posts THEN {"post"} ELSE {})
        \cup (IF subs' # subs THEN {"subreddit"} ELSE {})
        \cup (IF users' # users THEN {"user"} ELSE {})
        \cup (IF cloud' # cloud THEN {"image"} ELSE {})

Track(c) ==
    /\ writes' = [writes EXCEPT ![c] =
                    (IF req[c].pc \in {"idle", "done"} THEN {} ELSE @) \cup Touched]
    /\ saved' = saved \cup {p \in PostIds : posts'[p].exists}

-----------------------------------------------------------------------------
\* GET /new

GetNewStart(c) ==
    /\ Free(c)
    /\ \E page \in 1..MaxPage, limit \in 1..MaxLimit :
          Set(c, [Idle EXCEPT !.kind = "GETNEW", !.pc = "count",
                              !.page = page, !.limit = limit])
    /\ ops' = ops + 1
    /\ UNCHANGED <<posts, subs, users, cloud, nextId, clock>>
    /\ Track(c)

\* GetNewCount with the page and the limit exchanged in the call.
GetNewCountSwapped(c) ==
    /\ At(c, "GETNEW", "count")
    /\ Set(c, [req[c] EXCEPT !.pc = "find", !.postsCount = countDocuments,
                  !.paginated = paginateResults(req[c].limit, req[c].page,
                                                countDocuments)])
    /\ UNCHANGED <<posts, subs, users, cloud, nextId, clock, ops>>
    /\ Track(c)

GetNewCount(c) ==
    /\ At(c, "GETNEW", "count")
    /\ Set(c, [req[c] EXCEPT !.pc = "find", !.postsCount = countDocuments,
                  !.paginated = paginateResults(req[c].page, req[c].limit,
                                                countDocuments)])
    /\ UNCHANGED <<posts, subs, users, cloud, nextId, clock, ops>>
    /\ Track(c)

\* GetNewFind without .skip(): every page is the first one.
GetNewFindNoSkip(c) ==
    /\ At(c, "GETNEW", "find")
    /\ Set(c, Respond([req[c] EXCEPT !.results =
                  SkipLimit(SortNewest(Stored), 0, req[c].limit)], 200))
    /\ UNCHANGED <<posts, subs, users, cloud, nextId, clock, ops>>
    /\ Track(c)

GetNewFind(c) ==
    /\ At(c, "GETNEW", "find")
    /\ Set(c, Respond([req[c] EXCEPT !.results =
                  SkipLimit(SortNewest(Stored), req[c].paginated.startIndex,
                            req[c].limit)], 200))
    /\ UNCHANGED <<posts, subs, users, cloud, nextId, clock, ops>>
    /\ Track(c)

\* GET /:id/comments

\* The identifiers a request names: 0, and those of the posts stored when
\* the request arrives.
Known == {0} \cup Stored

GetCommentsStart(c) ==
    /\ Free(c)
    /\ \E id \in Known :
          Set(c, [Idle EXCEPT !.kind = "GETCOMMENTS", !.pc = "findPost", !.id = id])
    /\ ops' = ops + 1
    /\ UNCHANGED <<posts, subs, users, cloud, nextId, clock>>
    /\ Track(c)

GetCommentsFindPost(c) ==
    /\ At(c, "GETCOMMENTS", "findPost")
    /\ LET r == [Found(req[c], "post", posts[req[c].id]) EXCEPT
              !.post = posts[req[c].id]]
       IN  Set(c, IF ~r.post.exists THEN Respond(r, 404)
                  ELSE [r EXCEPT !.pc = "populate"])
    /\ UNCHANGED <<posts, subs, users, cloud, nextId, clock, ops>>
    /\ Track(c)

GetCommentsPopulate(c) ==
    /\ At(c, "GETCOMMENTS", "populate")
    /\ Set(c, Respond(req[c], 200))
    /\ UNCHANGED <<posts, subs, users, cloud, nextId, clock, ops>>
    /\ Track(c)

-----------------------------------------------------------------------------
\* document.save() of a Subreddit or User document whose posts array (and,
\* for the author of a new post, karma counter) was reassigned.  Only the
\* modified paths are written.  Replacing an array increments the version
\* key __v.  When the stored version is no longer the one that was loaded,
\* the outcome is the schema's: with the version key kept the update matches
\* no document and save() fails with a VersionError, without it the array is
\* overwritten.  The schemas are not part of this file, so a stale save has
\* both outcomes; `overwrite` chooses.
SaveList(current, loaded, newPosts, newKarma, overwrite) ==
    LET arrayModified == newPosts # loaded.posts
        modified == arrayModified \/ newKarma # loaded.postKarma
    IN  IF ~modified THEN [ok |-> TRUE, doc |-> current]
        ELSE IF arrayModified /\ current.v # loaded.v /\ ~overwrite
        THEN [ok |-> FALSE, doc |-> current]
        ELSE [ok |-> TRUE,
              doc |-> [current EXCEPT
                         !.posts = IF arrayModified THEN newPosts ELSE @,
                         !.postKarma = newKarma,
                         !.v = IF arrayModified THEN @ + 1 ELSE @]]

\* cloudinary.uploader.upload: the stored image, numbered by the host.
Uploaded == [imageLink |-> cloud + 1, imageId |-> cloud + 1]

-----------------------------------------------------------------------------
\* POST /

\* PostStart with the validator's failure ignored.
PostStartUnvalidated(c) ==
    /\ Free(c)
    /\ \E user \in UserIds, subreddit \in SubIds, postType \in RequestTypes,
          body \in Bodies :
          LET fields == postTypeValidator(postType, body.textSubmission,
                            body.linkSubmission, body.imageSubmission)
          IN  Set(c, [Idle EXCEPT !.kind = "POST", !.user = user,
                         !.subreddit = subreddit, !.postType = postType,
                         !.fields = fields, !.pc = "findAuthor"])
    /\ ops' = ops + 1
    /\ UNCHANGED <<posts, subs, users, cloud, nextId, clock>>
    /\ Track(c)

\* Lines 54-70: the validator runs before the first await.
PostStart(c) ==
    /\ Free(c)
    /\ \E user \in UserIds, subreddit \in SubIds, postType \in RequestTypes,
          body \in Bodies :
          LET fields == postTypeValidator(postType, body.textSubmission,
                            body.linkSubmission, body.imageSubmission)
              r == [Idle EXCEPT !.kind = "POST", !.user = user,
                                !.subreddit = subreddit, !.postType = postType,
                                !.fields = fields]
          IN  Set(c, IF fields.error # "" THEN Throw(r, fields.error)
                     ELSE [r EXCEPT !.pc = "findAuthor"])
    /\ ops' = ops + 1
    /\ UNCHANGED <<posts, subs, users, cloud, nextId, clock>>
    /\ Track(c)

\* Line 70.
PostFindAuthor(c) ==
    /\ At(c, "POST", "findAuthor")
    /\ Set(c, [Found(req[c], "author", users[req[c].user]) EXCEPT
              !.author = users[req[c].user], !.pc = "findSubreddit"])
    /\ UNCHANGED <<posts, subs, users, cloud, nextId, clock, ops>>
    /\ Track(c)

\* `new Post({...})` of lines 85-92.
NewPost(r) ==
    [exists |-> TRUE, id |-> nextId, postType |-> r.fields.postType,
     textSubmission |-> r.fields.textSubmission,
     linkSubmission |-> r.fields.linkSubmission,
     imageSubmission |-> NoImage, author |-> r.author.id,
     subreddit |-> r.subreddit, createdAt |-> clock, updatedAt |-> clock]

\* Lines 71-95: the second lookup, the two 404 answers, the new document.
PostFindSubreddit(c) ==
    /\ At(c, "POST", "findSubreddit")
    /\ LET r == [Found(req[c], "subreddit", subs[req[c].subreddit]) EXCEPT
              !.target = subs[req[c].subreddit]]
       IN  IF ~r.author.exists \/ ~r.target.exists
           THEN /\ Set(c, Respond(r, 404))
                /\ UNCHANGED <<nextId, clock>>
           ELSE /\ Set(c, [r EXCEPT !.post = NewPost(r), !.id = nextId,
                              !.pc = IF r.postType = "Image" THEN "upload"
                                     ELSE "savePost"])
                /\ nextId' = nextId + 1
                /\ clock' = clock + 1
    /\ UNCHANGED <<posts, subs, users, cloud, ops>>
    /\ Track(c)

\* Lines 95-108: the upload succeeds, or fails (the callback answers 401 and
\* the awaited promise rejects).
PostUpload(c) ==
    /\ At(c, "POST", "upload")
    /\ \/ /\ cloud' = cloud + 1
          /\ Set(c, [req[c] EXCEPT !.post.imageSubmission = Uploaded,
                                   !.pc = "savePost"])
       \/ /\ Set(c, Throw([req[c] EXCEPT !.status = 401], "UploadError"))
          /\ UNCHANGED cloud
    /\ UNCHANGED <<posts, subs, users, nextId, clock, ops>>
    /\ Track(c)

\* PostSavePost with the save left out: the handler goes on to the lists.
PostSavePostSkipped(c) ==
    /\ At(c, "POST", "savePost")
    /\ Set(c, [req[c] EXCEPT !.pc = "saveSubreddit"])
    /\ UNCHANGED <<posts, subs, users, cloud, nextId, clock, ops>>
    /\ Track(c)

\* Line 111.
PostSavePost(c) ==
    /\ At(c, "POST", "savePost")
    /\ posts' = [posts EXCEPT ![req[c].id] = req[c].post]
    /\ Set(c, [req[c] EXCEPT !.pc = "saveSubreddit"])
    /\ UNCHANGED <<subs, users, cloud, nextId, clock, ops>>
    /\ Track(c)

\* Lines 113-114.
PostSaveSubreddit(c) ==
    /\ At(c, "POST", "saveSubreddit")
    /\ \E overwrite \in BOOLEAN :
          LET t == req[c].target
              s == SaveList(subs[t.id], t, Append(t.posts, req[c].id), t.postKarma,
                            overwrite)
          IN  /\ subs' = [subs EXCEPT ![t.id] = s.doc]
              /\ Set(c, IF s.ok THEN [req[c] EXCEPT !.pc = "saveAuthor"]
                        ELSE Throw(req[c], "VersionError"))
    /\ UNCHANGED <<posts, users, cloud, nextId, clock, ops>>
    /\ Track(c)

\* Lines 116-118.
PostSaveAuthor(c) ==
    /\ At(c, "POST", "saveAuthor")
    /\ \E overwrite \in BOOLEAN :
          LET a == req[c].author
              s == SaveList(users[a.id], a, Append(a.posts, req[c].id), a.postKarma + 1,
                            overwrite)
          IN  /\ users' = [users EXCEPT ![a.id] = s.doc]
              /\ Set(c, IF s.ok THEN [req[c] EXCEPT !.pc = "populate"]
                        ELSE Throw(req[c], "VersionError"))
    /\ UNCHANGED <<posts, subs, cloud, nextId, clock, ops>>
    /\ Track(c)

\* Lines 120-125.
PostPopulate(c) ==
    /\ At(c, "POST", "populate")
    /\ Set(c, Respond(req[c], 201))
    /\ UNCHANGED <<posts, subs, users, cloud, nextId, clock, ops>>
    /\ Track(c)

-----------------------------------------------------------------------------
\* PATCH /:id

PatchStart(c) ==
    /\ Free(c)
    /\ \E id \in Known, user \in UserIds, body \in Bodies :
          Set(c, [Idle EXCEPT !.kind = "PATCH", !.pc = "findPost", !.id = id,
                              !.user = user, !.body = body])
    /\ ops' = ops + 1
    /\ UNCHANGED <<posts, subs, users, cloud, nextId, clock>>
    /\ Track(c)

\* Line 133.
PatchFindPost(c) ==
    /\ At(c, "PATCH", "findPost")
    /\ Set(c, [Found(req[c], "post", posts[req[c].id]) EXCEPT
              !.post = posts[req[c].id], !.pc = "findAuthor"])
    /\ UNCHANGED <<posts, subs, users, cloud, nextId, clock, ops>>
    /\ Track(c)

\* post.<path> = value, then on to post.save().  Mongoose marks the path
\* modified when the value differs from the one the document holds.
Assign(r, path, value) ==
    [r EXCEPT !.post[path] = value,
              !.modified = IF r.post[path] = value THEN @ ELSE @ \cup {path},
              !.pc = "savePost"]

\* PatchFields with the Text case assigning the link field.
PatchFieldsWrongField(r) ==
    LET fields == postTypeValidator(r.post.postType, r.body.textSubmission,
                      r.body.linkSubmission, r.body.imageSubmission)
        v == [r EXCEPT !.fields = fields]
    IN  IF fields.error # "" THEN Throw(v, fields.error)
        ELSE CASE r.post.postType = "Text" ->
                    Assign(v, "linkSubmission", fields.textSubmission)
               [] r.post.postType = "Link" ->
                    Assign(v, "linkSubmission", fields.linkSubmission)
               [] r.post.postType = "Image" -> [v EXCEPT !.pc = "upload"]
               [] OTHER -> Respond(v, 403)

\* Lines 152-187: the validator on the stored type, then the switch.
PatchFields(r) ==
    LET fields == postTypeValidator(r.post.postType, r.body.textSubmission,
                      r.body.linkSubmission, r.body.imageSubmission)
        v == [r EXCEPT !.fields = fields]
    IN  IF fields.error # "" THEN Throw(v, fields.error)
        ELSE CASE r.post.postType = "Text" ->
                    Assign(v, "textSubmission", fields.textSubmission)
               [] r.post.postType = "Link" ->
                    Assign(v, "linkSubmission", fields.linkSubmission)
               [] r.post.postType = "Image" -> [v EXCEPT !.pc = "upload"]
               [] OTHER -> Respond(v, 403)

\* Lines 134-169: the second lookup, the 404 and 401 answers, the new field.
PatchFindAuthor(c) ==
    /\ At(c, "PATCH", "findAuthor")
    /\ LET r == [Found(req[c], "author", users[req[c].user]) EXCEPT
              !.author = users[req[c].user]]
       IN  Set(c, IF ~r.post.exists \/ ~r.author.exists THEN Respond(r, 404)
                  ELSE IF r.post.author # r.author.id THEN Respond(r, 401)
                  ELSE PatchFields(r))
    /\ UNCHANGED <<posts, subs, users, cloud, nextId, clock, ops>>
    /\ Track(c)

\* PatchUpload going on to the save after a failed upload.
PatchUploadContinues(c) ==
    /\ At(c, "PATCH", "upload")
    /\ \/ /\ cloud' = cloud + 1
          /\ Set(c, Assign(req[c], "imageSubmission", Uploaded))
       \/ /\ Set(c, [req[c] EXCEPT !.status = 401, !.threw = "UploadError",
                                   !.pc = "savePost"])
          /\ UNCHANGED cloud
    /\ UNCHANGED <<posts, subs, users, nextId, clock, ops>>
    /\ Track(c)

\* Lines 169-183.
PatchUpload(c) ==
    /\ At(c, "PATCH", "upload")
    /\ \/ /\ cloud' = cloud + 1
          /\ Set(c, Assign(req[c], "imageSubmission", Uploaded))
       \/ /\ Set(c, Throw([req[c] EXCEPT !.status = 401], "UploadError"))
          /\ UNCHANGED cloud
    /\ UNCHANGED <<posts, subs, users, nextId, clock, ops>>
    /\ Track(c)

\* The paths post.save() writes: the modified submissions, and updatedAt.
Edited(current, local, modified, now) ==
    [current EXCEPT
       !.textSubmission =
           IF "textSubmission" \in modified THEN local.textSubmission ELSE @,
       !.linkSubmission =
           IF "linkSubmission" \in modified THEN local.linkSubmission ELSE @,
       !.imageSubmission =
           IF "imageSubmission" \in modified THEN local.imageSubmission ELSE @,
       !.updatedAt = now]

\* Lines 189-192.  updatedAt is assigned the function Date.now, not a time:
\* whether the document then validates is the Post schema's decision, so the
\* save either writes or fails validation.  A post deleted since it was
\* loaded is not written back.
PatchSavePost(c) ==
    /\ At(c, "PATCH", "savePost")
    /\ \/ /\ posts[req[c].id].exists
          /\ posts' = [posts EXCEPT ![req[c].id] = Edited(@, req[c].post, req[c].modified, clock)]
          /\ Set(c, Respond(req[c], 202))
       \/ /\ posts[req[c].id].exists
          /\ Set(c, Throw(req[c], "ValidationError"))
          /\ UNCHANGED posts
       \/ /\ ~posts[req[c].id].exists
          /\ Set(c, Throw(req[c], "DocumentNotFoundError"))
          /\ UNCHANGED posts
    /\ UNCHANGED <<subs, users, cloud, nextId, clock, ops>>
    /\ Track(c)

-----------------------------------------------------------------------------
\* DELETE /:id

DeleteStart(c) ==
    /\ Free(c)
    /\ \E id \in Known, user \in UserIds :
          Set(c, [Idle EXCEPT !.kind = "DELETE", !.pc = "findPost", !.id = id,
                              !.user = user])
    /\ ops' = ops + 1
    /\ UNCHANGED <<posts, subs, users, cloud, nextId, clock>>
    /\ Track(c)

\* Line 198.
DeleteFindPost(c) ==
    /\ At(c, "DELETE", "findPost")
    /\ Set(c, [Found(req[c], "post", posts[req[c].id]) EXCEPT
              !.post = posts[req[c].id], !.pc = "findAuthor"])
    /\ UNCHANGED <<posts, subs, users, cloud, nextId, clock, ops>>
    /\ Track(c)

\* DeleteFindAuthor without the comparison of line 213.
DeleteFindAuthorNoCheck(c) ==
    /\ At(c, "DELETE", "findAuthor")
    /\ LET r == [Found(req[c], "author", users[req[c].user]) EXCEPT
                   !.author = users[req[c].user]]
       IN  Set(c, IF ~r.post.exists \/ ~r.author.exists THEN Respond(r, 404)
                  ELSE [r EXCEPT !.pc = "findSubreddit"])
    /\ UNCHANGED <<posts, subs, users, cloud, nextId, clock, ops>>
    /\ Track(c)

\* Lines 199-217.
DeleteFindAuthor(c) ==
    /\ At(c, "DELETE", "findAuthor")
    /\ LET r == [Found(req[c], "author", users[req[c].user]) EXCEPT
              !.author = users[req[c].user]]
       IN  Set(c, IF ~r.post.exists \/ ~r.author.exists THEN Respond(r, 404)
                  ELSE IF r.post.author # r.author.id THEN Respond(r, 401)
                  ELSE [r EXCEPT !.pc = "findSubreddit"])
    /\ UNCHANGED <<posts, subs, users, cloud, nextId, clock, ops>>
    /\ Track(c)

\* Lines 217-225.  With the subreddit absent, the message of line 221 reads
\* subreddit._id of null: a TypeError leaves the handler before send().
DeleteFindSubreddit(c) ==
    /\ At(c, "DELETE", "findSubreddit")
    /\ LET r == [Found(req[c], "subreddit", subs[req[c].post.subreddit]) EXCEPT
              !.target = subs[req[c].post.subreddit]]
       IN  Set(c, IF ~r.target.exists THEN Throw(r, "TypeError")
                  ELSE [r EXCEPT !.pc = "deletePost"])
    /\ UNCHANGED <<posts, subs, users, cloud, nextId, clock, ops>>
    /\ Track(c)

\* Line 225.
DeletePost(c) ==
    /\ At(c, "DELETE", "deletePost")
    /\ posts' = [posts EXCEPT ![req[c].id] = NoPost]
    /\ Set(c, [req[c] EXCEPT !.pc = "saveSubreddit"])
    /\ UNCHANGED <<subs, users, cloud, nextId, clock, ops>>
    /\ Track(c)

\* Lines 227-228.
DeleteSaveSubreddit(c) ==
    /\ At(c, "DELETE", "saveSubreddit")
    /\ \E overwrite \in BOOLEAN :
          LET t == req[c].target
              s == SaveList(subs[t.id], t, FilterOut(t.posts, req[c].id), t.postKarma,
                            overwrite)
          IN  /\ subs' = [subs EXCEPT ![t.id] = s.doc]
              /\ Set(c, IF s.ok THEN [req[c] EXCEPT !.pc = "saveAuthor"]
                        ELSE Throw(req[c], "VersionError"))
    /\ UNCHANGED <<posts, users, cloud, nextId, clock, ops>>
    /\ Track(c)

\* Lines 230-233.
DeleteSaveAuthor(c) ==
    /\ At(c, "DELETE", "saveAuthor")
    /\ \E overwrite \in BOOLEAN :
          LET a == req[c].author
              s == SaveList(users[a.id], a, FilterOut(a.posts, req[c].id), a.postKarma,
                            overwrite)
          IN  /\ users' = [users EXCEPT ![a.id] = s.doc]
              /\ Set(c, IF s.ok THEN Respond(req[c], 204)
                        ELSE Throw(req[c], "VersionError"))
    /\ UNCHANGED <<posts, subs, cloud, nextId, clock, ops>>
    /\ Track(c)

-----------------------------------------------------------------------------
Step(c) ==
    \/ GetNewStart(c) \/ GetNewCount(c) \/ GetNewFind(c)
    \/ GetCommentsStart(c) \/ GetCommentsFindPost(c) \/ GetCommentsPopulate(c)
    \/ PostStart(c) \/ PostFindAuthor(c) \/ PostFindSubreddit(c) \/ PostUpload(c)
    \/ PostSavePost(c) \/ PostSaveSubreddit(c) \/ PostSaveAuthor(c)
    \/ PostPopulate(c)
    \/ PatchStart(c) \/ PatchFindPost(c) \/ PatchFindAuthor(c) \/ PatchUpload(c)
    \/ PatchSavePost(c)
    \/ DeleteStart(c) \/ DeleteFindPost(c) \/ DeleteFindAuthor(c)
    \/ DeleteFindSubreddit(c) \/ DeletePost(c) \/ DeleteSaveSubreddit(c)
    \/ DeleteSaveAuthor(c)

Next == \E c \in Clients : Step(c)

Spec == Init /\ [][Next]_vars

\* The same program over a store that also holds a post whose parent
\* subreddit record is absent, the case line 219 of DELETE /:id tests for.
Orphan ==
    [NoPost EXCEPT !.exists = TRUE, !.postType = "Text", !.textSubmission = "x",
                   !.author = "bob", !.subreddit = "s2"]

InitOrphan ==
    /\ posts = [p \in PostIds |-> IF p = 1 THEN Seed ELSE IF p = 0 THEN Orphan ELSE NoPost]
    /\ subs = SeedSubs
    /\ users = [SeedUsers EXCEPT !["bob"].posts = <<0>>, !["bob"].postKarma = 1,
                                 !["bob"].v = 1]
    /\ cloud = 0
    /\ nextId = 2
    /\ clock = 2
    /\ ops = 0
    /\ req = [c \in Clients |-> Idle]
    /\ writes = [c \in Clients |-> {}]
    /\ saved = {0, 1}

SpecOrphan == InitOrphan /\ [][Next]_vars

-----------------------------------------------------------------------------
\* Properties.

Done(c) == req[c].pc = "done"
Quiet == \A c \in Clients : req[c].pc \in {"idle", "done"}

\* The client whose request takes the step.
Acting(c) == req'[c] # req[c]

Min(a, b) == IF a < b THEN a ELSE b
Max(a, b) == IF a > b THEN a ELSE b

\* C1: once every request has run to completion, a post identifier is in
\* the posts list of its subreddit and in the posts list of its author
\* exactly when the Post record is stored.
ListsMatchPosts ==
    Quiet =>
      \A p \in PostIds :
        IF posts[p].exists
        THEN /\ p \in Range(subs[posts[p].subreddit].posts)
             /\ p \in Range(users[posts[p].author].posts)
        ELSE /\ \A s \in SubIds : p \notin Range(subs[s].posts)
             /\ \A u \in UserIds : p \notin Range(users[u].posts)

\* C2: a step of POST / that writes the Subreddit or the User collection
\* is taken after the request's post was saved, and a step of DELETE /:id
\* that writes them is taken after the post it loaded has been deleted.
PostWrittenFirst ==
    [][\A c \in Clients :
         (Acting(c) /\ (subs' # subs \/ users' # users)) =>
           \/ req[c].kind = "POST" /\ req[c].id \in saved
           \/ /\ req[c].kind = "DELETE"
              /\ req[c].post.exists
              /\ ~posts[req[c].id].exists]_vars

PostWrittenFirstWitness ==
    \E c \in Clients, d \in Clients :
        /\ req[c].kind = "DELETE" /\ {"post", "subreddit", "user"} \subseteq writes[c]
        /\ req[d].kind = "POST" /\ {"post", "subreddit", "user"} \subseteq writes[d]

\* C3: a POST / or PATCH /:id request whose upload failed has written
\* nothing: no Post, Subreddit or User record differs because of it.
UploadFailureWritesNothing ==
    \A c \in Clients :
        (Done(c) /\ req[c].threw = "UploadError") =>
            /\ req[c].kind \in {"POST", "PATCH"}
            /\ writes[c] = {}

UploadFailureWitness ==
    \E c \in Clients, p \in PostIds :
        /\ Done(c) /\ req[c].kind = "PATCH" /\ req[c].threw = "UploadError"
        /\ posts[p].exists /\ posts[p].postType = "Image"

\* C4: a request one of whose lookups found no record is answered 404 and
\* has written nothing.
AbsentAnswered404 ==
    \A c \in Clients :
        (Done(c) /\ req[c].absent # {}) =>
            /\ req[c].status = 404
            /\ req[c].threw = ""
            /\ writes[c] = {}

\* C5: PATCH /:id and DELETE /:id by an existing user who is not the author
\* of the existing post are answered 403.
StrangerAnswered403 ==
    [][\A c \in Clients :
         (/\ req[c].kind \in {"PATCH", "DELETE"}
          /\ req[c].pc = "findAuthor"
          /\ Acting(c)
          /\ req[c].post.exists
          /\ users[req[c].user].exists
          /\ req[c].post.author # req[c].user) => req'[c].status = 403]_vars

\* C6: every stored post has exactly the submission of its type populated,
\* and no step changes the type of a stored post.
Populated(p) ==
    (IF posts[p].textSubmission # "" THEN {"Text"} ELSE {})
        \cup (IF posts[p].linkSubmission # "" THEN {"Link"} ELSE {})
        \cup (IF posts[p].imageSubmission # NoImage THEN {"Image"} ELSE {})

SubmissionMatchesType ==
    /\ [](\A p \in PostIds : posts[p].exists => Populated(p) = {posts[p].postType})
    /\ [][\A p \in PostIds :
            (posts[p].exists /\ posts'[p].exists) =>
                posts'[p].postType = posts[p].postType]_vars

SubmissionMatchesTypeWitness ==
    \E p \in PostIds, q \in PostIds :
        /\ posts[p].exists /\ posts[p].postType = "Image"
        /\ posts[p].updatedAt # posts[p].createdAt
        /\ posts[q].exists /\ posts[q].postType = "Link"

\* C7 as stated: the window, the links, and a page that starts at or after
\* the counted total has no next link and an empty list.
GetNewAsClaimed ==
    \A c \in Clients :
        (Done(c) /\ req[c].kind = "GETNEW") =>
            LET r == req[c]
                w == r.paginated
            IN  /\ w.startIndex = (r.page - 1) * r.limit
                /\ w.endIndex = r.page * r.limit
                /\ Len(r.results) <= r.limit
                /\ w.previous = IF w.startIndex > 0
                                THEN [page |-> r.page - 1, limit |-> r.limit]
                                ELSE NoPage
                /\ w.next = IF w.endIndex < r.postsCount
                            THEN [page |-> r.page + 1, limit |-> r.limit]
                            ELSE NoPage
                /\ w.startIndex >= r.postsCount =>
                       w.next = NoPage /\ r.results = <<>>

\* C7 amended: the window and the links are those of the counted total; the
\* list answered is the window over the posts stored when the find runs,
\* newest first, so it is empty when the window starts at or after the
\* number of posts stored then.
Newer(p) == {q \in Stored : posts[q].createdAt > posts[p].createdAt}

GetNewWindow ==
    /\ [](\A c \in Clients :
            (Done(c) /\ req[c].kind = "GETNEW") =>
                LET r == req[c]
                    w == r.paginated
                IN  /\ w.startIndex = (r.page - 1) * r.limit
                    /\ w.endIndex = r.page * r.limit
                    /\ Len(r.results) <= r.limit
                    /\ w.previous = IF w.startIndex > 0
                                    THEN [page |-> r.page - 1, limit |-> r.limit]
                                    ELSE NoPage
                    /\ w.next = IF w.endIndex < r.postsCount
                                THEN [page |-> r.page + 1, limit |-> r.limit]
                                ELSE NoPage
                    /\ w.startIndex >= r.postsCount => w.next = NoPage)
    /\ [][\A c \in Clients :
            (req[c].kind = "GETNEW" /\ req[c].pc = "find" /\ Acting(c)) =>
                LET s == req[c].paginated.startIndex
                    out == req'[c].results
                IN  /\ req'[c].status = 200
                    /\ Len(out) = Min(req[c].limit, Max(0, Cardinality(Stored) - s))
                    /\ \A i \in 1..Len(out) :
                           /\ out[i] \in Stored
                           /\ Cardinality(Newer(out[i])) = s + i - 1]_vars

GetNewWindowWitness ==
    \E c \in Clients :
        /\ Done(c) /\ req[c].kind = "GETNEW"
        /\ req[c].results # <<>>
        /\ req[c].paginated.previous # NoPage

\* C8 as stated: 0 <= startIndex <= endIndex <= totalCount.
IndicesWithinTotal ==
    \A c \in Clients :
        (req[c].kind = "GETNEW" /\ req[c].pc \in {"find", "done"}) =>
            /\ 0 <= req[c].paginated.startIndex
            /\ req[c].paginated.startIndex <= req[c].paginated.endIndex
            /\ req[c].paginated.endIndex <= req[c].postsCount

\* C8 amended: 0 <= startIndex <= endIndex, the two are a page apart, and
\* endIndex is below the total whenever a next page is announced.
IndicesOrdered ==
    \A c \in Clients :
        (req[c].kind = "GETNEW" /\ req[c].pc \in {"find", "done"}) =>
            /\ 0 <= req[c].paginated.startIndex
            /\ req[c].paginated.startIndex <= req[c].paginated.endIndex
            /\ req[c].paginated.endIndex - req[c].paginated.startIndex = req[c].limit
            /\ req[c].paginated.next # NoPage =>
                   req[c].paginated.endIndex < req[c].postsCount

IndicesOrderedWitness ==
    \E c \in Clients :
        /\ req[c].kind = "GETNEW" /\ req[c].pc = "find"
        /\ req[c].paginated.startIndex > 0
        /\ req[c].paginated.endIndex > req[c].postsCount

\* C9: a request that failed validation has written nothing and uploaded
\* nothing, and every step of POST / or PATCH /:id that writes or uploads
\* is taken with a recognised type whose submission is not blank.
Submitted(f) ==
    CASE f.postType = "Text" -> f.textSubmission # ""
      [] f.postType = "Link" -> f.linkSubmission # ""
      [] f.postType = "Image" -> f.imageSubmission # ""
      [] OTHER -> FALSE

InvalidWritesNothing ==
    /\ [](\A c \in Clients :
            (Done(c) /\ req[c].threw \in {"InvalidPostType", "EmptySubmission"}) =>
                writes[c] = {})
    /\ [][\A c \in Clients :
            (/\ Acting(c)
             /\ req[c].kind \in {"POST", "PATCH"}
             /\ (store' # store \/ cloud' # cloud)) => Submitted(req[c].fields)]_vars

InvalidWritesNothingWitness ==
    \E c \in Clients, d \in Clients :
        /\ Done(c) /\ req[c].kind = "PATCH" /\ req[c].threw = "EmptySubmission"
        /\ Done(d) /\ req[d].kind = "POST" /\ req[d].threw = "InvalidPostType"

\* C10: a PATCH /:id or DELETE /:id whose user is not the author of the post
\* it loaded returns at once having written nothing, every step of such a
\* request that changes the store is taken for the post's author, and the
\* author of a stored post never changes.
OnlyAuthorWrites ==
    [][/\ \A c \in Clients :
            (Acting(c) /\ req[c].kind \in {"PATCH", "DELETE"}) =>
                /\ (/\ req[c].pc = "findAuthor"
                    /\ req[c].post.exists
                    /\ users[req[c].user].exists
                    /\ req[c].post.author # req[c].user) =>
                       (Done(c)' /\ writes'[c] = {} /\ store' = store)
                /\ store' # store =>
                       (req[c].post.exists /\ req[c].post.author = req[c].user)
       /\ \A p \in PostIds :
            (posts[p].exists /\ posts'[p].exists) =>
                posts'[p].author = posts[p].author]_vars

OnlyAuthorWritesWitness ==
    \E c \in Clients, d \in Clients :
        /\ Done(c) /\ req[c].kind = "DELETE" /\ req[c].status = 401
        /\ Done(d) /\ req[d].kind = "PATCH" /\ req[d].status = 401
        /\ req[d].threw = ""
        /\ writes[c] = {} /\ writes[d] = {}

====
